---- MODULE Spec2Model ----
(***************************************************************************)
(* A model of the risk engine of the Asian equity risk dashboard:          *)
(* src/src/risk_engine.py (RiskEngine), src/src/config.py (the factor      *)
(* universe) and the engine's caller, src/main.py.                         *)
(*                                                                         *)
(* Conventions.                                                            *)
(*  - An identifier (ticker) is a sequence of one-character strings, so    *)
(*    that str.endswith is computed, not assumed.                          *)
(*  - A cell of a panel is <<>> (NaN, a missing value) or <<v>>.           *)
(*  - A panel (pandas DataFrame) is a record [n, cols, data]: its dates    *)
(*    are 1..n in increasing order, data[c][d] is the cell of column c at  *)
(*    date d.                                                              *)
(*  - Floating-point values are modelled by exact integers and fractions.  *)
(***************************************************************************)
EXTENDS Integers, Sequences, FiniteSets, TLC

VARIABLES
    tkr,            \* the identifier handed to infer_region / get_X_for_ticker
    region,         \* the result of infer_region(tkr), "none" before the call
    factor_rets,    \* the factor return panel (RiskEngine.factor_rets)
    X,              \* the result of get_X_for_ticker(tkr), NoFrame before the call
    stock_rets,     \* the asset return panel (RiskEngine.stock_rets)
    window,         \* RiskEngine.window
    betas,          \* RiskEngine.betas: asset -> its beta rows
    model_success_count,    \* RiskEngine.model_success_count
    pc,             \* where run_rolling_regression stands
    k,              \* run_rolling_regression: the position of tkr in stock_rets.columns
    i,              \* run_rolling_regression: the variable of the rolling loop
    betas_rows,     \* run_rolling_regression: the rows fitted so far for the asset
    common,         \* run_rolling_regression: the aligned dates of the asset
    calls,          \* the calls of run_rolling_regression made on the engine so far
    shock_factor,   \* generate_coherent_scenario: its parameter shock_factor
    shock_size,     \* the shock size, in hundredths (the sidebar's second slider)
    scenario,       \* generate_coherent_scenario: whether it was called, and its result
    lookback,       \* main.py: the value of the lookback slider
    session_state,  \* main.py: st.session_state
    script,         \* main.py: where the script run stands
    loaded          \* main.py: stock_rets as fetch_and_clean_data returned it

\* the engine and the call of run_rolling_regression in progress
evars == <<stock_rets, window, betas, model_success_count, pc, k, i, betas_rows, common, calls>>

\* the call of generate_coherent_scenario
svars == <<shock_factor, shock_size, scenario>>

\* the dashboard script
dvars == <<lookback, session_state, script, loaded>>

vars == <<tkr, region, factor_rets, X, evars, svars, dvars>>

----------------------------------------------------------------------------
(* Bounds of the model *)

\* longest identifier handed to infer_region
MaxLen == 4

\* number of dates of a factor panel handed to get_X_for_ticker
NumDates == 7

\* largest number of columns of a factor panel that have missing values
MaxSparse == 1

\* largest number of missing cells of the panels handed to the engine
MaxHoles == 1

\* number of dates of a factor panel handed to generate_coherent_scenario
ScenDates == 5

\* most beta rows of an asset of the panels handed to the engine, behind a lag
MaxRows == 3

\* most calls of run_rolling_regression on one engine
MaxCalls == 2

----------------------------------------------------------------------------
(* Strings *)

\* str.endswith(suffix)
endswith(s, suf) ==
    /\ Len(s) >= Len(suf)
    /\ SubSeq(s, Len(s) - Len(suf) + 1, Len(s)) = suf

Alphabet == {".", "T", "K", "S", "H", "Z", "7", "s"}

Identifiers == UNION {[1..n -> Alphabet] : n \in 0..MaxLen}

----------------------------------------------------------------------------
(* Region Classifier *)

Regions == {"JP", "KR", "HK", "CN", "OTHER"}

infer_region_SS_only(t) ==
    IF endswith(t, <<".", "T">>) THEN "JP"
    ELSE IF endswith(t, <<".", "K", "S">>) THEN "KR"
    ELSE IF endswith(t, <<".", "H", "K">>) THEN "HK"
    ELSE IF endswith(t, <<".", "S", "S">>) THEN "CN"
    ELSE "OTHER"

infer_region(t) ==
    IF endswith(t, <<".", "T">>) THEN "JP"
    ELSE IF endswith(t, <<".", "K", "S">>) THEN "KR"
    ELSE IF endswith(t, <<".", "H", "K">>) THEN "HK"
    ELSE IF endswith(t, <<".", "S", "S">>) \/ endswith(t, <<".", "S", "Z">>) THEN "CN"
    ELSE "OTHER"

----------------------------------------------------------------------------
(* Frames *)

NaN == <<>>

notna(cell) == cell # NaN

NoFrame == [n |-> 0, cols |-> <<>>, data |-> <<>>]

\* no engine has been constructed
NoEngine ==
    /\ stock_rets = NoFrame
    /\ window = 0
    /\ betas = <<>>
    /\ model_success_count = 0
    /\ pc = "none"
    /\ k = 0
    /\ i = 0
    /\ betas_rows = <<>>
    /\ common = <<>>
    /\ calls = 0

\* generate_coherent_scenario has not been called
NoScenario ==
    /\ shock_factor = ""
    /\ shock_size = 0
    /\ scenario = [done |-> FALSE, value |-> <<>>]

\* st.session_state without the key "engine"
NoSession == [has |-> FALSE, window |-> 0, betas |-> <<>>, model_success_count |-> 0]

\* no script run of the dashboard
NoDashboard ==
    /\ lookback = 0
    /\ session_state = NoSession
    /\ script = "none"
    /\ loaded = NoFrame

----------------------------------------------------------------------------
(* Universe definitions (config.py) *)

FACTOR_TICKERS ==
    {"^N225", "^KS11", "^HSI", "000300.SS",
     "EWJ", "EWY", "EWH", "MCHI", "FXI",
     "JPY=X", "KRW=X", "CNY=X",
     "^VIX", "^TNX", "CL=F", "HG=F"}

GLOBAL_FACTORS == <<"^VIX", "^TNX", "CL=F", "HG=F">>

US_TIMED_FACTORS ==
    {GLOBAL_FACTORS[j] : j \in DOMAIN GLOBAL_FACTORS}
        \cup {"EWJ", "EWY", "EWH", "MCHI", "FXI"}

\* IDX_PREF.get(reg, [])
IDX_PREF(reg) ==
    CASE reg = "JP" -> <<"^N225", "EWJ">>
      [] reg = "KR" -> <<"^KS11", "EWY">>
      [] reg = "HK" -> <<"^HSI", "EWH">>
      [] reg = "CN" -> <<"MCHI", "FXI">>
      [] OTHER -> <<>>

\* FX_PREF.get(reg, [])
FX_PREF(reg) ==
    CASE reg = "JP" -> <<"JPY=X">>
      [] reg = "KR" -> <<"KRW=X">>
      [] reg = "CN" -> <<"CNY=X">>
      [] OTHER -> <<>>

\* nan_frac > 0.20 drops a factor column in the loader: percent
SparseMaxPct == 20

\* X[c].notna().mean() >= 0.85: percent
CoverageMinPct == 85

----------------------------------------------------------------------------
(* Factor Selector *)

Range(s) == {s[j] : j \in DOMAIN s}

\* the loop without its break: every available candidate is appended
FirstAvailable_NoBreak(prefs, avail) ==
    SelectSeq(prefs, LAMBDA c : c \in avail)

\* for c in prefs: if c in avail: cols.append(c); break
FirstAvailable(prefs, avail) ==
    LET hits == {j \in DOMAIN prefs : prefs[j] \in avail}
    IN  IF hits = {} THEN <<>>
        ELSE <<prefs[CHOOSE j \in hits : \A h \in hits : j <= h]>>

\* step 1 of get_X_for_ticker: the selected columns, in order
SelectCols(reg, avail) ==
    FirstAvailable(IDX_PREF(reg), avail)
        \o FirstAvailable(FX_PREF(reg), avail)
        \o SelectSeq(GLOBAL_FACTORS, LAMBDA g : g \in avail)

\* Series.shift(1)
shift1(series, n) ==
    [d \in 1..n |-> IF d = 1 THEN NaN ELSE series[d - 1]]

\* the lag applied to every column of an Asian stock
LagCols_AllColumns(reg, cols) ==
    IF reg \in {"JP", "KR", "HK", "CN"} THEN Range(cols) ELSE {}

\* step 2 of get_X_for_ticker: lag the US-timed columns of an Asian stock
LagCols(reg, cols) ==
    IF reg \in {"JP", "KR", "HK", "CN"}
    THEN {c \in Range(cols) : c \in US_TIMED_FACTORS}
    ELSE {}

\* the number of non-missing cells of a series over dates 1..n
RECURSIVE CountNotNa(_, _)
CountNotNa(series, n) ==
    IF n = 0 THEN 0
    ELSE CountNotNa(series, n - 1) + (IF notna(series[n]) THEN 1 ELSE 0)

\* X[c].notna().mean() >= 0.85 (the mean of an empty column is NaN: False)
GoodCoverage(series, n) ==
    /\ n > 0
    /\ 100 * CountNotNa(series, n) >= CoverageMinPct * n

\* the coverage filter applied before the lag instead of after it
get_X_for_ticker_FilterFirst(panel, t) ==
    LET reg == infer_region(t)
        avail == panel.cols
        cols == SelectCols(reg, avail)
        lag_cols == LagCols(reg, cols)
        good_cols == SelectSeq(cols, LAMBDA c : GoodCoverage(panel.data[c], panel.n))
    IN  [n |-> panel.n,
         cols |-> good_cols,
         data |-> [c \in Range(good_cols) |->
                      IF c \in lag_cols THEN shift1(panel.data[c], panel.n)
                      ELSE panel.data[c]]]

get_X_for_ticker(panel, t) ==
    LET reg == infer_region(t)
        avail == panel.cols
        cols == SelectCols(reg, avail)
        lag_cols == LagCols(reg, cols)
        lagged == [c \in Range(cols) |->
                      IF c \in lag_cols THEN shift1(panel.data[c], panel.n)
                      ELSE panel.data[c]]
        good_cols == SelectSeq(cols, LAMBDA c : GoodCoverage(lagged[c], panel.n))
    IN  [n |-> panel.n,
         cols |-> good_cols,
         data |-> [c \in Range(good_cols) |-> lagged[c]]]

----------------------------------------------------------------------------
(* Input panels *)

\* the series of a factor that is missing on the dates of miss: the value
\* of date d is d, so that a shifted value is told from an unshifted one
SeriesMissing(n, miss) == [d \in 1..n |-> IF d \in miss THEN NaN ELSE <<d>>]

\* the loader drops a factor column with more than 20% missing values
LoaderKeeps(n, miss) == 100 * Cardinality(miss) <= SparseMaxPct * n

\* the missing-date sets of a factor column the loader keeps
FactorMisses(n) == {miss \in SUBSET (1..n) : LoaderKeeps(n, miss)}

\* the column sets of the factor panels: for a home region, any of its
\* local indices and currencies, and any of the global factors
ColumnSets ==
    UNION {{ix \cup cu \cup gl :
               ix \in SUBSET Range(IDX_PREF(r)),
               cu \in SUBSET Range(FX_PREF(r)),
               gl \in SUBSET Range(GLOBAL_FACTORS)} : r \in Regions \ {"OTHER"}}

\* the panel of n dates with the columns cs, where the columns of sparse miss
\* the dates of miss and the other columns miss none
Panel(n, cs, sparse, miss) ==
    [n |-> n,
     cols |-> cs,
     data |-> [c \in cs |-> SeriesMissing(n, IF c \in sparse THEN miss ELSE {})]]

\* one identifier per recognized suffix, and two unrecognized ones
SampleTickers ==
    {<<"7", ".", "T">>, <<"7", ".", "K", "S">>, <<"7", ".", "H", "K">>,
     <<"7", ".", "S", "S">>, <<"7", ".", "S", "Z">>, <<"7", "T">>}

----------------------------------------------------------------------------
(* Specification of the Factor Selector: any panel, one call *)

InitX ==
    /\ tkr = <<>>
    /\ region = "none"
    /\ \E cs \in ColumnSets :
          \E sparse \in SUBSET cs :
              /\ Cardinality(sparse) <= MaxSparse
              /\ \E miss \in FactorMisses(NumDates) \ {{}} :
                     factor_rets = Panel(NumDates, cs, sparse, miss)
    /\ X = NoFrame
    /\ NoEngine
    /\ NoScenario
    /\ NoDashboard

CallGetX ==
    /\ tkr = <<>>
    /\ \E t \in SampleTickers :
          /\ tkr' = t
          /\ X' = get_X_for_ticker(factor_rets, t)
    /\ UNCHANGED <<calls, svars, dvars, region, factor_rets, evars>>

NextX == CallGetX

SpecX == InitX /\ [][NextX]_vars

----------------------------------------------------------------------------
(* Rolling Regression Fitter *)

\* y.dropna().index.intersection(X.dropna().index): the dates, in increasing
\* order, at which the asset and every column of its design matrix hold a value
CommonDates(y, Xf) ==
    {d \in 1..Xf.n : notna(y[d]) /\ \A c \in Range(Xf.cols) : notna(Xf.data[c][d])}

RECURSIVE SortedSeq(_)
SortedSeq(S) ==
    IF S = {} THEN <<>>
    ELSE LET m == CHOOSE x \in S : \A z \in S : x <= z
         IN  <<m>> \o SortedSeq(S \ {m})

Common(y, Xf) == SortedSeq(CommonDates(y, Xf))

\* y_aligned.iloc[j - w : j].index, j counted from 0 as in the code
TrainWindow(dates, w, j) == SubSeq(dates, j - w + 1, j)

\* the rolling loop started one position late
LoopStart_OneLate(w) == w + 1

\* the first value of the rolling loop: range(self.window, len(common))
LoopStart(w) == w

\* Ridge(alpha=1.0).fit raises on a design matrix without columns
FitMustRaise(Xf) == Len(Xf.cols) = 0

\* the row labelled with the last date of its own training window
BetaRow_DatedInWindow(dates, Xf, w, j) ==
    [date |-> dates[j],
     index |-> Xf.cols \o <<"Intercept">>,
     train |-> SubSeq(dates, j - w + 1, j)]

\* the row stored after the fit at loop value j: the coefficients' index (the
\* columns of X_train and the intercept), the date y_aligned.index[j], and the
\* dates the fit was trained on; the fitted numbers are not modelled
BetaRow(dates, Xf, w, j) ==
    [date |-> dates[j + 1],
     index |-> Xf.cols \o <<"Intercept">>,
     train |-> TrainWindow(dates, w, j)]

\* RiskEngine(stock_rets, factor_rets, window) followed by the call of
\* run_rolling_regression, at the head of its loop
NewEngine(stocks, w) ==
    /\ stock_rets = stocks
    /\ window = w
    /\ betas = <<>>
    /\ model_success_count = 0
    /\ pc = "loop"
    /\ k = 1
    /\ i = 0
    /\ betas_rows = <<>>
    /\ common = <<>>
    /\ calls = 1

\* for tkr in self.stock_rets.columns: exhausted
LoopEnd ==
    /\ pc = "loop"
    /\ k > Len(stock_rets.cols)
    /\ pc' = "done"
    /\ UNCHANGED <<calls, svars, dvars, region, factor_rets, tkr, X, common, stock_rets, window, betas, model_success_count,
                   k, i, betas_rows>>

\* if self.infer_region(tkr) == "OTHER": continue
SkipOther ==
    /\ pc = "loop"
    /\ k <= Len(stock_rets.cols)
    /\ tkr' = stock_rets.cols[k]
    /\ infer_region(tkr') = "OTHER"
    /\ k' = k + 1
    /\ UNCHANGED <<calls, svars, dvars, region, factor_rets, X, common, stock_rets, window, betas, model_success_count,
                   pc, i, betas_rows>>

\* X = self.get_X_for_ticker(tkr); common = ...: the head of the loop's body
\* for an asset of a recognized region
AlignTicker ==
    /\ pc = "loop"
    /\ k <= Len(stock_rets.cols)
    /\ tkr' = stock_rets.cols[k]
    /\ infer_region(tkr') # "OTHER"
    /\ X' = get_X_for_ticker(factor_rets, tkr')
    /\ common' = Common(stock_rets.data[tkr'], X')

\* if len(common) < self.window: continue
SkipShort ==
    /\ AlignTicker
    /\ Len(common') < window
    /\ k' = k + 1
    /\ UNCHANGED <<calls, svars, dvars, region, factor_rets, stock_rets, window, betas, model_success_count, pc, i, betas_rows>>

\* betas_rows = []; dates = []; the rolling loop starts
BeginRolling ==
    /\ AlignTicker
    /\ Len(common') >= window
    /\ betas_rows' = <<>>
    /\ i' = LoopStart(window)
    /\ pc' = "fit"
    /\ UNCHANGED <<calls, svars, dvars, region, factor_rets, stock_rets, window, betas, model_success_count, k>>

\* self.betas[tkr] written inside the rolling loop, after every fit
FitOk_StoreEachRow ==
    /\ pc = "fit"
    /\ i < Len(common)
    /\ ~(Len(X.cols) = 0)
    /\ betas_rows' = Append(betas_rows,
                            [date |-> common[i + 1],
                             index |-> X.cols \o <<"Intercept">>,
                             train |-> SubSeq(common, i - window + 1, i)])
    /\ betas' = [u \in DOMAIN betas \cup {tkr} |->
                    IF u = tkr THEN betas_rows' ELSE betas[u]]
    /\ i' = i + 1
    /\ UNCHANGED <<calls, svars, dvars, region, factor_rets, tkr, X, common, stock_rets, window, model_success_count, pc, k>>

\* one pass of the rolling loop: the fit returns and its row is appended
FitOk ==
    /\ pc = "fit"
    /\ i < Len(common)
    /\ ~FitMustRaise(X)
    /\ betas_rows' = Append(betas_rows, BetaRow(common, X, window, i))
    /\ i' = i + 1
    /\ UNCHANGED <<calls, svars, dvars, region, factor_rets, tkr, X, common, stock_rets, window, betas, model_success_count,
                   pc, k>>

\* one pass of the rolling loop: model.fit raises; nothing in
\* run_rolling_regression catches it, and the call ends with the exception
FitRaise ==
    /\ pc = "fit"
    /\ i < Len(common)
    /\ pc' = "raised"
    /\ UNCHANGED <<calls, svars, dvars, region, factor_rets, tkr, X, common, stock_rets, window, betas, model_success_count,
                   k, i, betas_rows>>

\* self.betas[tkr] = pd.DataFrame(betas_rows, index=dates), if betas_rows
StoreBetas(b, t, rows) ==
    IF rows # <<>>
    THEN [u \in DOMAIN b \cup {t} |-> IF u = t THEN rows ELSE b[u]]
    ELSE b

\* the count incremented outside of `if betas_rows:`
CountSuccess_EveryAsset(n, rows) == n + 1

\* if betas_rows: self.model_success_count += 1
CountSuccess(n, rows) == IF rows # <<>> THEN n + 1 ELSE n

\* the rolling loop is over: store the asset's rows and go to the next asset
Store ==
    /\ pc = "fit"
    /\ i >= Len(common)
    /\ betas' = StoreBetas(betas, tkr, betas_rows)
    /\ model_success_count' = CountSuccess(model_success_count, betas_rows)
    /\ k' = k + 1
    /\ pc' = "loop"
    /\ UNCHANGED <<calls, svars, dvars, region, factor_rets, tkr, X, common, stock_rets, window, i, betas_rows>>


----------------------------------------------------------------------------
(* Specification of the Rolling Regression Fitter: an engine over any of   *)
(* the input panels, and one call of run_rolling_regression                *)

\* a Japanese asset, a Hong Kong asset, and one of no recognized suffix
RollTickers == {<<"7", ".", "T">>, <<"7", ".", "H", "K">>, <<"7", "T">>}

\* the asset panels hold two of them, in either order
RollColumns == {<<a, b>> : a, b \in RollTickers} \ {<<a, a>> : a \in RollTickers}

\* the factor panels hold any of a local index and two global factors
RollFactors == {"^N225", "^VIX", "^TNX"}

\* the windows of the engines: those that leave an asset without missing
\* values at most MaxRows beta rows behind a lagged factor, and longer ones
Windows == (NumDates - 1 - MaxRows)..NumDates

\* the subsets of S of at most m elements
RECURSIVE SubsetsUpTo(_, _)
SubsetsUpTo(S, m) ==
    IF m = 0 THEN {{}}
    ELSE LET smaller == SubsetsUpTo(S, m - 1)
         IN  smaller \cup {p \cup {x} : p \in smaller, x \in S}

\* the dates at which column c is missing, given the missing cells <<column, date>>
HolesOf(holes, c) == {h[2] : h \in {g \in holes : g[1] = c}}

\* the factor panel of n dates with the columns cs and the missing cells holes
HoledFactors(n, cs, holes) ==
    [n |-> n, cols |-> cs,
     data |-> [c \in cs |-> SeriesMissing(n, HolesOf(holes, c))]]

\* the asset panel of n dates with the columns cols, in this order
HoledStocks(n, cols, holes) ==
    [n |-> n, cols |-> cols,
     data |-> [c \in Range(cols) |-> SeriesMissing(n, HolesOf(holes, c))]]

InitRoll ==
    /\ tkr = <<>>
    /\ region = "none"
    /\ X = NoFrame
    /\ NoScenario
    /\ NoDashboard
    /\ \E fcols \in SUBSET RollFactors, scols \in RollColumns, w \in Windows :
          \E fholes \in SubsetsUpTo(fcols \X (1..NumDates), MaxHoles),
             sholes \in SubsetsUpTo(Range(scols) \X (1..NumDates), MaxHoles) :
              /\ Cardinality(fholes) + Cardinality(sholes) <= MaxHoles
              /\ \A c \in fcols : LoaderKeeps(NumDates, HolesOf(fholes, c))
              /\ factor_rets = HoledFactors(NumDates, fcols, fholes)
              /\ NewEngine(HoledStocks(NumDates, scols, sholes), w)

NextRoll ==
    LoopEnd \/ SkipOther \/ SkipShort \/ BeginRolling \/ FitOk \/ FitRaise \/ Store

SpecRoll == InitRoll /\ [][NextRoll]_vars

----------------------------------------------------------------------------
(* What the claims about the Rolling Regression Fitter speak of *)

Assets == Range(stock_rets.cols)

\* the dates at which asset t and every column of its design matrix hold a
\* value: its aligned (inner-joined, non-missing) history
Aligned(t) ==
    LET Xt == get_X_for_ticker(factor_rets, t)
    IN  {d \in 1..stock_rets.n :
            /\ stock_rets.data[t][d] # NaN
            /\ \A c \in Range(Xt.cols) : Xt.data[c][d] # NaN}

\* the position of date d in the aligned history A, counted from 0
AlignedPos(A, d) == Cardinality({e \in A : e < d})

\* the number of beta rows the engine holds for t
NumRows(t) == IF t \in DOMAIN betas THEN Len(betas[t]) ELSE 0

\* row r is the fit at position p of the aligned history A: trained on the
\* aligned rows [p - window, p), in order, and labelled with the date at p
IsRowAt(A, r, p) ==
    /\ r.date \in A
    /\ AlignedPos(A, r.date) = p
    /\ Len(r.train) = window
    /\ \A j \in 1..window :
           /\ r.train[j] \in A
           /\ AlignedPos(A, r.train[j]) = p - window + j - 1
    /\ r.date \notin Range(r.train)

\* asset t has a complete beta history
CompleteHistory(t) ==
    LET A == Aligned(t)
    IN  /\ Cardinality(A) > window
        /\ Len(betas[t]) = Cardinality(A) - window
        /\ \A j \in 1..Len(betas[t]) : IsRowAt(A, betas[t][j], window + j - 1)
        /\ \A j \in 1..(Len(betas[t]) - 1) : betas[t][j].date < betas[t][j + 1].date

----------------------------------------------------------------------------
(* C2, as stated: a fit that raises does not end the batch: once the call  *)
(* of run_rolling_regression is over, by its return or by the exception,   *)
(* every asset of a recognized region with enough aligned history, other   *)
(* than the asset whose fit raised, has its beta series in the mapping.    *)

C2_FailureIsolated ==
    pc \in {"done", "raised"} =>
        \A t \in Assets :
            (/\ infer_region(t) # "OTHER"
             /\ Len(get_X_for_ticker(factor_rets, t).cols) > 0
             /\ Cardinality(Aligned(t)) > window
             /\ ~(pc = "raised" /\ t = tkr))
                => t \in DOMAIN betas

----------------------------------------------------------------------------
(* C3: in every state of an engine run, after a fit has raised too, every  *)
(* asset of the betas mapping has a complete beta history: one row for     *)
(* every aligned position from window to the end of its aligned series, in *)
(* strictly increasing date order, the row of position p fitted on the     *)
(* aligned rows [p - window, p) and labelled with the date at position p,  *)
(* which is not in its training window; no asset of region OTHER is in the *)
(* mapping.                                                                *)

C3_AbsentOrComplete ==
    \A t \in DOMAIN betas :
        /\ t \in Assets
        /\ infer_region(t) # "OTHER"
        /\ CompleteHistory(t)

\* a fit has raised in the middle of an asset's rolling loop, after another
\* asset was stored: the rows fitted so far are not in the mapping
C3_Witness ==
    /\ pc = "raised"
    /\ betas_rows # <<>>
    /\ tkr \notin DOMAIN betas
    /\ \E t \in DOMAIN betas : Len(betas[t]) >= 2

----------------------------------------------------------------------------
(* C4: no beta row is ever held for an asset whose aligned history is      *)
(* shorter than window; an asset with exactly window aligned observations  *)
(* gets none either, its one training window ending at its last aligned    *)
(* observation; with one aligned observation more, a completed run holds   *)
(* exactly one row for it, dated at the observation following its training *)
(* window.                                                                 *)

C4_ShortHistoryNoRow ==
    \A t \in Assets :
        LET A == Aligned(t)
        IN  /\ Cardinality(A) < window => NumRows(t) = 0
            /\ Cardinality(A) = window => NumRows(t) = 0
            /\ (/\ Cardinality(A) = window + 1
                /\ infer_region(t) # "OTHER"
                /\ pc = "done")
                   => /\ NumRows(t) = 1
                      /\ IsRowAt(A, betas[t][1], window)
                      /\ \A d \in Range(betas[t][1].train) : d < betas[t][1].date
                      /\ \A d \in A :
                             d \in Range(betas[t][1].train) \/ d = betas[t][1].date

\* a completed run over an asset with exactly window aligned observations and
\* one with window + 1
C4_Witness ==
    /\ pc = "done"
    /\ \E t \in Assets :
          /\ infer_region(t) # "OTHER"
          /\ Cardinality(Aligned(t)) = window
          /\ Len(get_X_for_ticker(factor_rets, t).cols) > 0
          /\ NumRows(t) = 0
    /\ \E t \in Assets :
          /\ Cardinality(Aligned(t)) = window + 1
          /\ NumRows(t) = 1

----------------------------------------------------------------------------
(* C5: the end-to-end scenario: a factor panel of a local index and two    *)
(* global factors, and a panel of two assets of recognized regions, all of *)
(* P periods without missing values.                                       *)

EndToEndScenario ==
    /\ factor_rets.cols = {"^N225", "^VIX", "^TNX"}
    /\ \A c \in factor_rets.cols : \A d \in 1..factor_rets.n : factor_rets.data[c][d] # NaN
    /\ \A t \in Assets :
          /\ infer_region(t) # "OTHER"
          /\ \A d \in 1..stock_rets.n : stock_rets.data[t][d] # NaN

\* every row of t holds the coefficients of the retained columns and the intercept
RowsHoldRetainedColumns(t) ==
    \A j \in 1..NumRows(t) :
        betas[t][j].index = get_X_for_ticker(factor_rets, t).cols \o <<"Intercept">>

(* C5, as stated: the run with window W <= P ends with exactly P - W beta  *)
(* rows per asset, each holding the coefficients of the retained columns   *)
(* and the intercept.                                                      *)

C5_RowsAreDatesMinusWindow ==
    (pc = "done" /\ EndToEndScenario /\ window <= stock_rets.n) =>
        \A t \in Assets :
            /\ NumRows(t) = stock_rets.n - window
            /\ RowsHoldRetainedColumns(t)

(* C5, amended: with P >= 7 the lagged factors are retained and their      *)
(* first period is missing, so the run with window W < P ends with exactly *)
(* P - 1 - W beta rows per asset, each holding the coefficients of the     *)
(* retained columns and the intercept.                                     *)

C5_RowsAreDatesMinusWindowMinusLag ==
    (pc = "done" /\ EndToEndScenario /\ window < stock_rets.n /\ stock_rets.n >= 7) =>
        \A t \in Assets :
            /\ NumRows(t) = stock_rets.n - 1 - window
            /\ RowsHoldRetainedColumns(t)

C5_Witness ==
    /\ pc = "done"
    /\ EndToEndScenario
    /\ window = stock_rets.n - 1 - 3
    /\ \A t \in Assets : NumRows(t) = 3
    /\ \E t \in Assets : betas[t][1].index = <<"^N225", "^VIX", "^TNX", "Intercept">>
    /\ \E t \in Assets : betas[t][1].index = <<"^VIX", "^TNX", "Intercept">>

----------------------------------------------------------------------------
(* Specification of repeated calls: an engine over complete panels, and up *)
(* to MaxCalls calls of run_rolling_regression on it. __init__ alone sets  *)
(* betas and model_success_count; a call starts from what the calls before *)
(* it left in them.                                                        *)

\* run_rolling_regression is called again on the engine, after the call
\* before it returned or raised
CallAgain ==
    /\ pc \in {"done", "raised"}
    /\ calls < MaxCalls
    /\ calls' = calls + 1
    /\ pc' = "loop"
    /\ k' = 1
    /\ i' = 0
    /\ betas_rows' = <<>>
    /\ common' = <<>>
    /\ tkr' = <<>>
    /\ X' = NoFrame
    /\ UNCHANGED <<svars, dvars, region, factor_rets, stock_rets, window, betas,
                   model_success_count>>

InitCalls ==
    /\ tkr = <<>>
    /\ region = "none"
    /\ X = NoFrame
    /\ NoScenario
    /\ NoDashboard
    /\ \E fcols \in SUBSET RollFactors, scols \in RollColumns, w \in Windows :
          /\ factor_rets = HoledFactors(NumDates, fcols, {})
          /\ NewEngine(HoledStocks(NumDates, scols, {}), w)

NextCalls ==
    \/ LoopEnd \/ SkipOther \/ SkipShort \/ BeginRolling \/ FitOk \/ FitRaise \/ Store
    \/ CallAgain

SpecCalls == InitCalls /\ [][NextCalls]_vars

----------------------------------------------------------------------------
(* C11, as claimed: after any number of completed calls of                 *)
(* run_rolling_regression on the same engine, model_success_count is the   *)
(* number of assets in the betas mapping.                                  *)

C11_CountIsNumberOfAssets ==
    pc = "done" => model_success_count = Cardinality(DOMAIN betas)

(* C11, amended: when the first call of run_rolling_regression on a newly  *)
(* constructed engine has completed, model_success_count is the number of  *)
(* assets in the betas mapping; calls after it count their assets again,   *)
(* and model_success_count is never less than that number.                 *)

C11_CountAfterFirstCall ==
    /\ (pc = "done" /\ calls = 1) =>
           model_success_count = Cardinality(DOMAIN betas)
    /\ model_success_count >= Cardinality(DOMAIN betas)

\* the first call has completed with both assets of the panel stored
C11_Witness ==
    /\ pc = "done"
    /\ calls = 1
    /\ model_success_count = 2
    /\ Cardinality(DOMAIN betas) = 2

----------------------------------------------------------------------------
(* The dashboard script (main.py). Streamlit runs the script from the top  *)
(* on every interaction; st.session_state outlives the script runs.        *)

\* the positions of the lookback slider: the windows of the engines
Lookbacks == Windows

\* the variables of run_rolling_regression and the engine of the script run
\* are gone
DropLocals ==
    /\ tkr' = <<>>
    /\ X' = NoFrame
    /\ pc' = "none"
    /\ k' = 0
    /\ i' = 0
    /\ betas_rows' = <<>>
    /\ common' = <<>>

\* a script run that finds no engine in the session state, or the Refresh
\* button pressed: RiskEngine(stock_rets, factor_rets, window=lookback) and
\* the call of run_rolling_regression
RerunFresh ==
    /\ script = "idle"
    /\ loaded.n > 0
    /\ \E lb \in Lookbacks, button \in BOOLEAN :
          /\ ~session_state.has \/ button
          /\ lookback' = lb
          /\ stock_rets' = loaded
          /\ window' = lb
    /\ betas' = <<>>
    /\ model_success_count' = 0
    /\ pc' = "loop"
    /\ k' = 1
    /\ i' = 0
    /\ betas_rows' = <<>>
    /\ common' = <<>>
    /\ calls' = 1
    /\ script' = "running"
    /\ UNCHANGED <<svars, region, factor_rets, tkr, X, session_state, loaded>>

\* a script run that finds an engine in the session state and the button not
\* pressed: engine = st.session_state["engine"], whatever the slider says
RerunCached ==
    /\ script = "idle"
    /\ loaded.n > 0
    /\ session_state.has
    /\ \E lb \in Lookbacks : lookback' = lb
    /\ stock_rets' = loaded
    /\ window' = session_state.window
    /\ betas' = session_state.betas
    /\ model_success_count' = session_state.model_success_count
    /\ calls' = 1
    /\ script' = "tabs"
    /\ UNCHANGED <<svars, region, factor_rets, tkr, X, pc, k, i, betas_rows, common,
                   session_state, loaded>>

\* run_rolling_regression returned: st.session_state["engine"] = engine
RunDone ==
    /\ script = "running"
    /\ pc = "done"
    /\ session_state' = [has |-> TRUE, window |-> window, betas |-> betas,
                         model_success_count |-> model_success_count]
    /\ script' = "tabs"
    /\ DropLocals
    /\ UNCHANGED <<svars, region, factor_rets, stock_rets, window, betas,
                   model_success_count, calls, lookback, loaded>>

\* except Exception: status_placeholder.error(...); st.stop()
RunFailed ==
    /\ script = "running"
    /\ pc = "raised"
    /\ script' = "idle"
    /\ DropLocals
    /\ stock_rets' = NoFrame
    /\ window' = 0
    /\ betas' = <<>>
    /\ model_success_count' = 0
    /\ calls' = 0
    /\ UNCHANGED <<svars, region, factor_rets, lookback, session_state, loaded>>

\* the tabs read engine.betas and lookback, and the script run ends
RenderTabs ==
    /\ script = "tabs"
    /\ script' = "idle"
    /\ stock_rets' = NoFrame
    /\ window' = 0
    /\ betas' = <<>>
    /\ model_success_count' = 0
    /\ calls' = 0
    /\ UNCHANGED <<svars, region, factor_rets, tkr, X, pc, k, i, betas_rows, common,
                   lookback, session_state, loaded>>

----------------------------------------------------------------------------
(* Specification of the dashboard: a session over complete panels, and any *)
(* sequence of script runs                                                 *)

InitDash ==
    /\ tkr = <<>>
    /\ region = "none"
    /\ X = NoFrame
    /\ NoEngine
    /\ NoScenario
    /\ lookback = 0
    /\ session_state = NoSession
    /\ script = "idle"
    /\ \E fcols \in SUBSET RollFactors, scols \in RollColumns :
          /\ factor_rets = HoledFactors(NumDates, fcols, {})
          /\ loaded = HoledStocks(NumDates, scols, {})

NextDash ==
    \/ RerunFresh \/ RerunCached
    \/ LoopEnd \/ SkipOther \/ SkipShort \/ BeginRolling \/ FitOk \/ FitRaise \/ Store
    \/ RunDone \/ RunFailed \/ RenderTabs

SpecDash == InitDash /\ [][NextDash]_vars

----------------------------------------------------------------------------
(* C1: whenever the tabs consume the beta series of the engine in use,     *)
(* these were computed with the window length the lookback slider shows:   *)
(* every beta row of every asset was fitted on that many dates.            *)

C1_BetasUseSelectedWindow ==
    script = "tabs" =>
        \A t \in DOMAIN betas :
            \A r \in 1..Len(betas[t]) : Len(betas[t][r].train) = lookback

----------------------------------------------------------------------------
(* Scenario Generator. A value is a whole number of hundredths; an average *)
(* or a scaled value is NaN or a fraction <<numerator, denominator>>.      *)

\* Series.dropna().index
Observed(panel, c) == {d \in 1..panel.n : notna(panel.data[c][d])}

ValueAt(panel, c, d) == panel.data[c][d][1]

\* the values of column c at the dates of S, in increasing order
RECURSIVE SortedValues(_, _, _)
SortedValues(panel, c, S) ==
    IF S = {} THEN <<>>
    ELSE LET d == CHOOSE x \in S :
                      \A z \in S : ValueAt(panel, c, x) <= ValueAt(panel, c, z)
         IN  <<ValueAt(panel, c, d)>> \o SortedValues(panel, c, S \ {d})

\* 100 * Series.quantile(0.98) of the sorted values vals, with pandas' linear
\* interpolation between the two values next to position 0.98 * (len - 1)
Quantile98x100(vals) ==
    LET pos == 98 * (Len(vals) - 1)
        lo == (pos \div 100) + 1
        hi == IF lo < Len(vals) THEN lo + 1 ELSE lo
    IN  100 * vals[lo] + (pos % 100) * (vals[hi] - vals[lo])

\* vix[vix >= stress_cutoff].index; the quantile of an empty series is NaN,
\* and no value is >= NaN
StressDates(panel, c) ==
    LET obs == Observed(panel, c)
    IN  IF obs = {} THEN {}
        ELSE {d \in obs :
                 100 * ValueAt(panel, c, d) >= Quantile98x100(SortedValues(panel, c, obs))}

RECURSIVE SumAt(_, _, _)
SumAt(panel, c, S) ==
    IF S = {} THEN 0
    ELSE LET d == CHOOSE x \in S : TRUE
         IN  ValueAt(panel, c, d) + SumAt(panel, c, S \ {d})

\* factor_rets.loc[stress_dates].mean(): the mean of the values of column c
\* that are not missing, NaN if there is none
StressMean(panel, c, stress) ==
    LET have == {d \in stress : notna(panel.data[c][d])}
    IN  IF have = {} THEN NaN ELSE <<SumAt(panel, c, have), Cardinality(have)>>

\* the scaling inverted: current_shock_avg / shock_size
Scaler_Inverted(avg, size) ==
    IF avg = NaN THEN NaN
    ELSE IF avg[1] = 0 THEN <<1, 1>>
    ELSE <<avg[1], size * avg[2]>>

\* if current_shock_avg == 0: scaler = 1.0; else: shock_size / current_shock_avg
Scaler(avg, size) ==
    IF avg = NaN THEN NaN
    ELSE IF avg[1] = 0 THEN <<1, 1>>
    ELSE <<size * avg[2], avg[1]>>

\* avg_moves * scaler, one entry
Scaled(avg, scaler) ==
    IF avg = NaN \/ scaler = NaN THEN NaN
    ELSE <<avg[1] * scaler[1], avg[2] * scaler[2]>>

generate_coherent_scenario(panel, factor, size) ==
    IF factor \notin panel.cols THEN <<>>
    ELSE LET stress_dates == StressDates(panel, factor)
             avg_moves == [c \in panel.cols |-> StressMean(panel, c, stress_dates)]
             scaler == Scaler(avg_moves[factor], size)
         IN  [c \in panel.cols |-> Scaled(avg_moves[c], scaler)]

----------------------------------------------------------------------------
(* Specification of the Scenario Generator: any panel, one call *)

\* the moves of the shock factor, in hundredths
ShockValues == {-10, 0, 10}

\* the sidebar's shock slider: its least, default and greatest value
ShockSizes == {10, 20, 50}

\* the series of the other factor: a fixed move per date, of both signs
OtherSeries(n, miss) ==
    [d \in 1..n |-> IF d \in miss THEN NaN ELSE <<5 * (d - 2)>>]

\* the series of n dates over ShockValues that miss the dates of miss
ShockSeries(n, miss) ==
    {[d \in 1..n |-> IF d \in miss THEN NaN ELSE <<v[d]>>] : v \in [1..n -> ShockValues]}

InitScen ==
    /\ tkr = <<>>
    /\ region = "none"
    /\ X = NoFrame
    /\ NoEngine
    /\ NoDashboard
    /\ shock_factor = "^VIX"
    /\ shock_size \in ShockSizes
    /\ scenario = [done |-> FALSE, value |-> <<>>]
    /\ \E cs \in (SUBSET {"^VIX", "^TNX"}) \ {{}} :
          \E vmiss \in FactorMisses(ScenDates), tmiss \in FactorMisses(ScenDates) :
              \E vix \in ShockSeries(ScenDates, vmiss) :
                  factor_rets =
                      [n |-> ScenDates,
                       cols |-> cs,
                       data |-> [c \in cs |->
                                    IF c = "^VIX" THEN vix
                                    ELSE OtherSeries(ScenDates, tmiss)]]

CallScenario ==
    /\ ~scenario.done
    /\ scenario' =
           [done |-> TRUE,
            value |-> generate_coherent_scenario(factor_rets, shock_factor, shock_size)]
    /\ UNCHANGED <<tkr, region, factor_rets, X, evars, dvars, shock_factor, shock_size>>

NextScen == CallScenario

SpecScen == InitScen /\ [][NextScen]_vars

----------------------------------------------------------------------------
(* C9: generate_coherent_scenario returns an empty vector when the shock   *)
(* factor is not a column of the panel; otherwise the value of every       *)
(* factor is its raw stress-day average times one common scale factor:     *)
(* shock_size over the stress-day average of the shock factor, or 1 when   *)
(* that average is zero (with average 0.10 and shock_size 0.20 every value *)
(* is doubled); when the average is not zero, the shock factor's own value *)
(* is shock_size. Values are compared as exact fractions.                  *)

\* the stress-day average of column c, counted by the claim: over the dates
\* at which the shock factor is at least its 98th percentile
RawAverage(c) == StressMean(factor_rets, c, StressDates(factor_rets, shock_factor))

\* fraction v is fraction a times num / den
IsProduct(v, a, num, den) == v[1] * a[2] * den = v[2] * a[1] * num

C9_CoherentScaling ==
    scenario.done =>
        IF shock_factor \notin factor_rets.cols
        THEN scenario.value = <<>>
        ELSE LET own == RawAverage(shock_factor)
             IN  /\ DOMAIN scenario.value = factor_rets.cols
                 /\ own # NaN
                 /\ \A c \in factor_rets.cols :
                        LET raw == RawAverage(c)
                            val == scenario.value[c]
                        IN  IF raw = NaN THEN val = NaN
                            ELSE /\ val # NaN
                                 /\ val[2] # 0
                                 /\ own[1] = 0 => IsProduct(val, raw, 1, 1)
                                 /\ own[1] # 0 =>
                                        IsProduct(val, raw, shock_size * own[2], own[1])
                                 /\ (own[1] = 10 * own[2] /\ shock_size = 20) =>
                                        IsProduct(val, raw, 2, 1)
                 /\ own[1] # 0 =>
                        IsProduct(scenario.value[shock_factor], <<1, 1>>, shock_size, 1)

\* average 0.10 of the shock factor, shock_size 0.20: the other factor's
\* average of 0.10 over two stress days is returned as 0.20
C9_Witness ==
    /\ scenario.done
    /\ factor_rets.cols = {"^VIX", "^TNX"}
    /\ shock_size = 20
    /\ RawAverage("^VIX") = <<20, 2>>
    /\ RawAverage("^TNX") = <<20, 2>>
    /\ IsProduct(scenario.value["^TNX"], <<20, 1>>, 1, 1)

----------------------------------------------------------------------------
(* Specification of the Region Classifier: any identifier, one call *)

InitRegion ==
    /\ tkr \in Identifiers
    /\ region = "none"
    /\ factor_rets = NoFrame
    /\ X = NoFrame
    /\ NoEngine
    /\ NoScenario
    /\ NoDashboard

CallInferRegion ==
    /\ region = "none"
    /\ region' = infer_region(tkr)
    /\ UNCHANGED <<tkr, factor_rets, X, evars, svars, dvars>>

NextRegion == CallInferRegion

SpecRegion == InitRegion /\ [][NextRegion]_vars

----------------------------------------------------------------------------
(* What the claims about the Factor Selector speak of *)

APAC == {"JP", "KR", "HK", "CN"}

\* get_X_for_ticker has been called
BuiltX == tkr # <<>>

XCols == Range(X.cols)

\* the candidates of the local-index and of the local-currency slot
IdxCandidates(reg) == Range(IDX_PREF(reg))

FxCandidates(reg) == Range(FX_PREF(reg))

AllCurrencies == {"JPY=X", "KRW=X", "CNY=X"}

GlobalsPresent == {g \in Range(GLOBAL_FACTORS) : g \in factor_rets.cols}

\* column c is lagged in the design matrix of an identifier of region reg
IsLagged(reg, c) == c \in US_TIMED_FACTORS /\ reg \in APAC

\* the dates of the panel's full range at which column c holds a value after
\* lagging, told from the source panel
CoveredDates(reg, c) ==
    IF IsLagged(reg, c)
    THEN {d \in 2..factor_rets.n : factor_rets.data[c][d - 1] # NaN}
    ELSE {d \in 1..factor_rets.n : factor_rets.data[c][d] # NaN}

\* c is the first candidate of prefs that the panel holds
IsFirstAvailable(c, prefs) ==
    \E j \in DOMAIN prefs :
        /\ prefs[j] = c
        /\ c \in factor_rets.cols
        /\ \A h \in 1..(j - 1) : prefs[h] \notin factor_rets.cols

\* the slot of a column: local index, local currency, then the global factors
Slot(reg, c) ==
    IF c \in IdxCandidates(reg) THEN 1
    ELSE IF c \in FxCandidates(reg) THEN 2
    ELSE 2 + CHOOSE j \in DOMAIN GLOBAL_FACTORS : GLOBAL_FACTORS[j] = c

----------------------------------------------------------------------------
(* C6, as stated: for a JP, KR, HK or CN identifier every US-timed column  *)
(* of the design matrix holds at date d the source panel's value of the    *)
(* previous date, and the local-index column and the local-currency column *)
(* hold at date d the source panel's value of date d.                      *)

C6_LocalNeverShifted ==
    (BuiltX /\ infer_region(tkr) \in APAC) =>
        LET local == IdxCandidates(infer_region(tkr)) \cup FxCandidates(infer_region(tkr))
        IN  \A c \in XCols : \A d \in 1..X.n :
                /\ c \in US_TIMED_FACTORS =>
                      X.data[c][d] = (IF d = 1 THEN NaN ELSE factor_rets.data[c][d - 1])
                /\ c \in local => X.data[c][d] = factor_rets.data[c][d]

(* C6, amended: for a JP, KR, HK or CN identifier every US-timed column of *)
(* the design matrix, a local-index slot filled by a US-listed ETF (EWJ,   *)
(* EWY, EWH, MCHI, FXI) included, holds at date d the source panel's value *)
(* of the previous date (nothing at the first date); every column that is  *)
(* not US-timed (the local indices ^N225, ^KS11, ^HSI and the currencies)  *)
(* holds at date d the source panel's value of date d.                     *)

C6_UsTimedShiftedOthersNot ==
    (BuiltX /\ infer_region(tkr) \in APAC) =>
        \A c \in XCols : \A d \in 1..X.n :
            /\ c \in US_TIMED_FACTORS =>
                  X.data[c][d] = (IF d = 1 THEN NaN ELSE factor_rets.data[c][d - 1])
            /\ c \notin US_TIMED_FACTORS =>
                  X.data[c][d] = factor_rets.data[c][d]

\* a design matrix with a shifted global factor and an unshifted local index
C6_Witness ==
    /\ BuiltX
    /\ infer_region(tkr) = "JP"
    /\ X.cols = <<"^N225", "^VIX">>
    /\ X.data["^VIX"][2] = <<1>>
    /\ X.data["^N225"][2] = <<2>>

----------------------------------------------------------------------------
(* C7: the design matrix has at most one local-index column, the first     *)
(* available candidate of the region's preference list, at most one        *)
(* local-currency column, then global factors present in the panel in      *)
(* their canonical order (each of them, unless its coverage is too low);   *)
(* it has at most 1 + 1 + (number of global factors present) columns, and  *)
(* for region HK no currency column.                                       *)

C7_ColumnLayout ==
    BuiltX =>
        LET reg == infer_region(tkr)
            idx == XCols \cap IdxCandidates(reg)
            fx == XCols \cap FxCandidates(reg)
        IN  /\ Cardinality(idx) <= 1
            /\ \A c \in idx : IsFirstAvailable(c, IDX_PREF(reg))
            /\ Cardinality(fx) <= 1
            /\ \A c \in fx : IsFirstAvailable(c, FX_PREF(reg))
            /\ XCols \subseteq idx \cup fx \cup GlobalsPresent
            /\ \A j, h \in DOMAIN X.cols :
                   j < h => Slot(reg, X.cols[j]) < Slot(reg, X.cols[h])
            /\ \A g \in GlobalsPresent :
                   g \in XCols
                       \/ 100 * Cardinality(CoveredDates(reg, g)) < CoverageMinPct * X.n
            /\ Len(X.cols) <= 1 + 1 + Cardinality(GlobalsPresent)
            /\ reg = "HK" => XCols \cap AllCurrencies = {}

\* both index candidates available: the first one wins; all three slots filled
C7_Witness ==
    /\ BuiltX
    /\ {"^N225", "EWJ", "JPY=X", "^TNX", "HG=F"} \subseteq factor_rets.cols
    /\ X.cols = <<"^N225", "JPY=X", "^TNX", "HG=F">>

----------------------------------------------------------------------------
(* C8: a selected column whose coverage after lagging (the fraction of     *)
(* non-missing values over the panel's full date range) is below 85% is    *)
(* absent from the design matrix, and one whose coverage is at least 85%   *)
(* is present.                                                             *)

C8_CoverageFilter ==
    BuiltX =>
        LET reg == infer_region(tkr)
        IN  \A c \in Range(SelectCols(reg, factor_rets.cols)) :
                c \in XCols <=>
                    100 * Cardinality(CoveredDates(reg, c)) >= CoverageMinPct * factor_rets.n

\* one lagged column kept and one lagged column dropped
C8_Witness ==
    /\ BuiltX
    /\ infer_region(tkr) = "KR"
    /\ {"^VIX", "^TNX"} \subseteq factor_rets.cols
    /\ "^VIX" \in XCols
    /\ "^TNX" \notin XCols

----------------------------------------------------------------------------
(* C10: infer_region is total: every identifier ending in .T maps to JP,   *)
(* in .KS to KR, in .HK to HK, in .SS or .SZ to CN, every identifier with  *)
(* no recognized suffix maps to OTHER, and the result is always one of the *)
(* five regions.                                                           *)

HasSuffix(t, a, b) == Len(t) >= 2 /\ t[Len(t) - 1] = a /\ t[Len(t)] = b

HasSuffix3(t, a, b, c) ==
    Len(t) >= 3 /\ t[Len(t) - 2] = a /\ t[Len(t) - 1] = b /\ t[Len(t)] = c

Recognized(t) ==
    \/ HasSuffix(t, ".", "T")
    \/ HasSuffix3(t, ".", "K", "S")
    \/ HasSuffix3(t, ".", "H", "K")
    \/ HasSuffix3(t, ".", "S", "S")
    \/ HasSuffix3(t, ".", "S", "Z")

C10_InferRegionTotal ==
    region # "none" =>
        /\ region \in Regions
        /\ HasSuffix(tkr, ".", "T") => region = "JP"
        /\ HasSuffix3(tkr, ".", "K", "S") => region = "KR"
        /\ HasSuffix3(tkr, ".", "H", "K") => region = "HK"
        /\ HasSuffix3(tkr, ".", "S", "S") => region = "CN"
        /\ HasSuffix3(tkr, ".", "S", "Z") => region = "CN"
        /\ ~Recognized(tkr) => region = "OTHER"

C10_Witness ==
    /\ region = "CN"
    /\ tkr = <<"7", ".", "S", "Z">>

====
